---- MODULE Spec2Model ----
(***************************************************************************)
(* A model of the screenplay text-to-document pipeline of script-parser:   *)
(* Lexer::tokenize (src/src/lexer.rs), Parser::parse (src/src/parser.rs),  *)
(* Validator::validate (src/src/validator.rs) and the sequencing of main   *)
(* (src/src/main.rs).  Strings are sequences of one-character strings,   *)
(* Option<String> is a sequence of length 0 (None) or 1 (Some), a HashMap  *)
(* is a function from its key set.                                         *)
(***************************************************************************)
EXTENDS Integers, Sequences, FiniteSets, TLC

VARIABLES
    entry,            \* "main": text is tokenized then parsed; "lib": Parser::new(tokens)
    lines,            \* lexer: the input split into lines
    li,               \* lexer: number of lines the for loop has consumed
    current_section,  \* lexer: name of the section the loop is in
    tokens,           \* lexer output / Parser.tokens
    pc,               \* "lex", "parse", "characters", "script", "done", then main's
                      \* "validate_*", "validated", "render", "exit"
    position,         \* Parser.position
    script,           \* the Script under construction in Parser::parse
    characters,       \* local map of Parser::parse_characters
    scenes,           \* local vector of Parser::parse_script
    current_scene,    \* local scene of Parser::parse_script
    errors,           \* Validator.errors
    warnings,         \* Validator.warnings
    result            \* what Validator::validate returned to main: "none", "Ok", "Err"

validatorVars == <<errors, warnings, result>>

vars == <<entry, lines, li, current_section, tokens, pc, position, script,
          characters, scenes, current_scene, validatorVars>>

(***************************************************************************)
(* Bounds of the model.                                                    *)
(***************************************************************************)
MaxLines == 3
MaxTokens == 4
MaxDefs == 2
MaxBody == 1

(***************************************************************************)
(* Strings.                                                                *)
(***************************************************************************)
UpperChars == <<"A","B","C","D","E","F","G","H","I","J","K","L","M",
                "N","O","P","Q","R","S","T","U","V","W","X","Y","Z">>
LowerChars == <<"a","b","c","d","e","f","g","h","i","j","k","l","m",
                "n","o","p","q","r","s","t","u","v","w","x","y","z">>

IsUpper(c) == \E i \in 1..Len(UpperChars) : UpperChars[i] = c

IsWhitespace(c) == c \in {" ", "\t", "\r"}

LowerChar(c) ==
    IF IsUpper(c)
    THEN LowerChars[CHOOSE i \in 1..Len(UpperChars) : UpperChars[i] = c]
    ELSE c

to_lowercase(s) == [i \in 1..Len(s) |-> LowerChar(s[i])]

trim(s) ==
    LET keep == {i \in 1..Len(s) : ~IsWhitespace(s[i])}
        lo == CHOOSE i \in keep : \A j \in keep : i <= j
        hi == CHOOSE i \in keep : \A j \in keep : j <= i
    IN  IF keep = {} THEN <<>> ELSE SubSeq(s, lo, hi)

starts_with(s, p) == Len(s) >= Len(p) /\ SubSeq(s, 1, Len(p)) = p

ends_with(s, p) == Len(s) >= Len(p) /\ SubSeq(s, Len(s) - Len(p) + 1, Len(s)) = p

STitle == <<"t","i","t","l","e">>
SCharacters == <<"c","h","a","r","a","c","t","e","r","s">>
SScript == <<"s","c","r","i","p","t">>
TitleLabel == <<"T","i","t","l","e"," ","S","e","c","t","i","o","n">>

(***************************************************************************)
(* Tokens (enum Token).                                                    *)
(***************************************************************************)
SectionHeader(name) == [kind |-> "SectionHeader", name |-> name]
CharacterDef(code, name) == [kind |-> "CharacterDef", code |-> code, name |-> name]
DialogueLine(speaker, text) == [kind |-> "DialogueLine", speaker |-> speaker, text |-> text]
NarrationLine(text) == [kind |-> "NarrationLine", text |-> text]
ActionText(text) == [kind |-> "ActionText", text |-> text]
LocationHeader(name) == [kind |-> "LocationHeader", name |-> name]
EOF == [kind |-> "EOF"]

(***************************************************************************)
(* The regular expression ^([A-Z]+):\s*(.+)$ on one line.  The result is   *)
(* <<>> when the line does not match and <<c1, c2>>, the two captures,     *)
(* when it does.  [A-Z]+ is greedy and ':' is no upper-case letter, so the *)
(* colon must follow the whole upper-case run; \s* is greedy and gives     *)
(* back one character only when the rest is all whitespace.                *)
(***************************************************************************)
\* Mutant: the code accepts letters of either case ([A-Za-z]+).
UpperRun_AnyCase(s) ==
    LET stop == {i \in 1..Len(s) :
                    ~IsUpper(s[i]) /\ ~\E n \in 1..Len(LowerChars) : LowerChars[n] = s[i]}
    IN  IF stop = {} THEN Len(s)
        ELSE (CHOOSE i \in stop : \A j \in stop : i <= j) - 1

UpperRun(s) ==
    LET stop == {i \in 1..Len(s) : ~IsUpper(s[i])}
    IN  IF stop = {} THEN Len(s)
        ELSE (CHOOSE i \in stop : \A j \in stop : i <= j) - 1

WsRun(s) ==
    LET stop == {i \in 1..Len(s) : ~IsWhitespace(s[i])}
    IN  IF stop = {} THEN Len(s)
        ELSE (CHOOSE i \in stop : \A j \in stop : i <= j) - 1

CodeRegex(line) ==
    LET k == UpperRun(line)
        rest == SubSeq(line, k + 2, Len(line))
        w == WsRun(rest)
    IN  IF k >= 1 /\ Len(line) >= k + 1 /\ line[k + 1] = ":" /\ Len(rest) >= 1
        THEN <<SubSeq(line, 1, k),
               IF w < Len(rest) THEN SubSeq(rest, w + 1, Len(rest))
                                ELSE SubSeq(rest, Len(rest), Len(rest))>>
        ELSE <<>>

(***************************************************************************)
(* Lexer::parse_character_def and Lexer::parse_script_line: Option<Token>  *)
(***************************************************************************)
parse_character_def(line) ==
    LET captures == CodeRegex(line)
    IN  IF captures # <<>>
        THEN <<CharacterDef(captures[1], captures[2])>>
        ELSE <<>>

\* Mutant: the dialogue rule builds the token of parse_character_def.
parse_script_line_AsCharacterDef(line) ==
    LET captures == CodeRegex(line)
    IN  IF starts_with(line, <<"[">>) /\ ends_with(line, <<"]">>)
        THEN <<LocationHeader(SubSeq(line, 2, Len(line) - 1))>>
        ELSE IF starts_with(line, <<"(">>) /\ ends_with(line, <<")">>)
        THEN <<ActionText(SubSeq(line, 2, Len(line) - 1))>>
        ELSE IF captures # <<>>
        THEN <<CharacterDef(captures[1], captures[2])>>
        ELSE <<NarrationLine(line)>>

parse_script_line(line) ==
    LET captures == CodeRegex(line)
    IN  IF starts_with(line, <<"[">>) /\ ends_with(line, <<"]">>)
        THEN <<LocationHeader(SubSeq(line, 2, Len(line) - 1))>>
        ELSE IF starts_with(line, <<"(">>) /\ ends_with(line, <<")">>)
        THEN <<ActionText(SubSeq(line, 2, Len(line) - 1))>>
        ELSE IF captures # <<>>
        THEN <<DialogueLine(captures[1], captures[2])>>
        ELSE <<NarrationLine(line)>>

(***************************************************************************)
(* The document (struct Script, struct Scene, enum ScriptElement).         *)
(***************************************************************************)
EmptyMap == [c \in {} |-> <<>>]

NewScript == [title_section |-> <<>>, characters |-> EmptyMap, scenes |-> <<>>]

NewScene(location) == [location |-> location, elements |-> <<>>]

Dialogue(speaker, text) ==
    [kind |-> "Dialogue", speaker |-> speaker, text |-> text, actions |-> <<>>]
Narration(text) == [kind |-> "Narration", text |-> text]
Action(text) == [kind |-> "Action", text |-> text]

\* Mutant: an entry already present is kept (first definition wins).
insert_KeepFirst(m, k, v) ==
    [c \in DOMAIN m \cup {k} |-> IF c \in DOMAIN m THEN m[c] ELSE v]

insert(m, k, v) == [c \in DOMAIN m \cup {k} |-> IF c = k THEN v ELSE m[c]]

(***************************************************************************)
(* Inputs.  SampleLines are the lines an input text is made of, and        *)
(* SampleTokens the tokens a caller of Parser::new may pass.               *)
(***************************************************************************)
SampleLines ==
    { <<" ">>,
      <<"#"," ","T">>,
      <<"#","#"," ","C","h","a","r","a","c","t","e","r","s">>,
      <<"#","#"," ","S","C","R","I","P","T">>,
      <<"#","#"," ","T","i","t","l","e">>,
      <<"A",":"," ","x">>,
      <<" ","A",":","y">>,
      <<"B",":"," ","x">>,
      <<"[","K","]">>,
      <<"(","w",")">>,
      <<"a",":"," ","x">> }

SampleTokens ==
    { SectionHeader(<<"C","h","a","r","a","c","t","e","r","s">>),
      SectionHeader(<<"S","c","r","i","p","t">>),
      SectionHeader(<<"X">>),
      CharacterDef(<<"A">>, <<"x">>),
      LocationHeader(<<"K">>),
      LocationHeader(<<"L">>),
      NarrationLine(<<"h","i">>),
      EOF }

SeqsUpTo(S, n) == UNION {[1..k -> S] : k \in 0..n}

\* Whole documents in the layout of the format: an optional title line, a
\* characters section of up to MaxDefs definitions and a script section of
\* up to MaxBody lines.
SampleDefLines ==
    { <<"A",":"," ","x">>, <<" ","A",":","y">>, <<"B",":"," ","x">> }

SampleBodyLines ==
    { <<"A",":"," ","x">>, <<"B",":"," ","x">>, <<"[","K","]">>, <<"(","w",")">> }

SampleDocuments ==
    { title \o <<<<"#","#"," ","C","h","a","r","a","c","t","e","r","s">>>> \o defs
            \o <<<<"#","#"," ","S","C","R","I","P","T">>>> \o body :
        title \in {<<>>, <<<<"#"," ","T">>>>},
        defs \in SeqsUpTo(SampleDefLines, MaxDefs),
        body \in SeqsUpTo(SampleBodyLines, MaxBody) }

(***************************************************************************)
(* Initial states: main reads a text (main.rs), or a library user builds   *)
(* a Parser over a token vector of their own (Parser::new).                *)
(***************************************************************************)
InitMain ==
    /\ entry = "main"
    /\ lines \in SeqsUpTo(SampleLines, MaxLines) \cup SampleDocuments
    /\ li = 0
    /\ current_section = <<>>
    /\ tokens = <<>>
    /\ pc = "lex"

InitLib ==
    /\ entry = "lib"
    /\ lines = <<>>
    /\ li = 0
    /\ current_section = <<>>
    /\ tokens \in SeqsUpTo(SampleTokens, MaxTokens)
    /\ pc = "parse"

Init ==
    /\ (InitMain \/ InitLib)
    /\ position = 0
    /\ script = NewScript
    /\ characters = EmptyMap
    /\ scenes = <<>>
    /\ current_scene = NewScene(<<>>)
    /\ errors = <<>>
    /\ warnings = <<>>
    /\ result = "none"

(***************************************************************************)
(* Lexer::tokenize, one action per branch of the loop body.                *)
(***************************************************************************)
parserVars == <<position, script, characters, scenes, current_scene>>

line == lines[li + 1]
trimmed == trim(line)

InLoop == pc = "lex" /\ li < Len(lines)

IsSectionLine(t) == starts_with(t, <<"#","#"," ">>)
IsTitleLine(t) == starts_with(t, <<"#"," ">>)

LexBlank ==
    /\ InLoop
    /\ trimmed = <<>>
    /\ li' = li + 1
    /\ UNCHANGED <<entry, lines, current_section, tokens, pc, parserVars, validatorVars>>

LexSectionHeader ==
    /\ InLoop
    /\ trimmed # <<>>
    /\ IsSectionLine(trimmed)
    /\ LET section_name == trim(SubSeq(trimmed, 4, Len(trimmed)))
       IN  /\ current_section' = section_name
           /\ tokens' = Append(tokens, SectionHeader(section_name))
    /\ li' = li + 1
    /\ UNCHANGED <<entry, lines, pc, parserVars, validatorVars>>

LexTitleHeader ==
    /\ InLoop
    /\ trimmed # <<>>
    /\ ~IsSectionLine(trimmed)
    /\ IsTitleLine(trimmed)
    /\ current_section' = STitle
    /\ tokens' = Append(tokens, SectionHeader(STitle))
    /\ li' = li + 1
    /\ UNCHANGED <<entry, lines, pc, parserVars, validatorVars>>

IsContentLine(t) == t # <<>> /\ ~IsSectionLine(t) /\ ~IsTitleLine(t)

LexCharactersLine ==
    /\ InLoop
    /\ IsContentLine(trimmed)
    /\ to_lowercase(current_section) = SCharacters
    /\ tokens' = tokens \o parse_character_def(trimmed)
    /\ li' = li + 1
    /\ UNCHANGED <<entry, lines, current_section, pc, parserVars, validatorVars>>

LexScriptLine ==
    /\ InLoop
    /\ IsContentLine(trimmed)
    /\ to_lowercase(current_section) = SScript
    /\ tokens' = tokens \o parse_script_line(trimmed)
    /\ li' = li + 1
    /\ UNCHANGED <<entry, lines, current_section, pc, parserVars, validatorVars>>

\* Mutant: a line outside the two sections is kept as narration.
LexOtherLine_AsNarration ==
    /\ InLoop
    /\ IsContentLine(trimmed)
    /\ to_lowercase(current_section) \notin {SCharacters, SScript}
    /\ tokens' = Append(tokens, NarrationLine(trimmed))
    /\ li' = li + 1
    /\ UNCHANGED <<entry, lines, current_section, pc, parserVars, validatorVars>>

LexOtherLine ==
    /\ InLoop
    /\ IsContentLine(trimmed)
    /\ to_lowercase(current_section) \notin {SCharacters, SScript}
    /\ li' = li + 1
    /\ UNCHANGED <<entry, lines, current_section, tokens, pc, parserVars, validatorVars>>

\* Mutant: the sentinel is not pushed.
LexEOF_NoSentinel ==
    /\ pc = "lex"
    /\ li = Len(lines)
    /\ pc' = "parse"
    /\ position' = 0
    /\ script' = NewScript
    /\ UNCHANGED <<entry, lines, li, current_section, tokens, characters, scenes,
                   current_scene, validatorVars>>

\* The loop is over: the sentinel is pushed, and main hands the tokens to
\* Parser::new and calls parse.
LexEOF ==
    /\ pc = "lex"
    /\ li = Len(lines)
    /\ tokens' = Append(tokens, EOF)
    /\ pc' = "parse"
    /\ position' = 0
    /\ script' = NewScript
    /\ UNCHANGED <<entry, lines, li, current_section, characters, scenes, current_scene,
                   validatorVars>>

(***************************************************************************)
(* Parser: current_token, is_at_end, advance.                              *)
(***************************************************************************)
current_token == IF position < Len(tokens) THEN tokens[position + 1] ELSE EOF

is_at_end == position >= Len(tokens) \/ current_token.kind = "EOF"

advance == IF ~is_at_end THEN position + 1 ELSE position

lexerVars == <<entry, lines, li, current_section, tokens>>

(***************************************************************************)
(* Parser::parse, one action per arm of the top-level loop.                *)
(***************************************************************************)
AtTop == pc = "parse" /\ ~is_at_end

IsSection(name) ==
    /\ current_token.kind = "SectionHeader"
    /\ to_lowercase(current_token.name) = name

ParseTitle ==
    /\ AtTop
    /\ IsSection(STitle)
    /\ script' = [script EXCEPT !.title_section = TitleLabel]
    /\ position' = advance
    /\ UNCHANGED <<lexerVars, validatorVars, pc, characters, scenes, current_scene>>

\* "characters" arm: the call of parse_characters up to its loop.
ParseCharacters ==
    /\ AtTop
    /\ IsSection(SCharacters)
    /\ characters' = EmptyMap
    /\ position' = advance
    /\ pc' = "characters"
    /\ UNCHANGED <<lexerVars, validatorVars, script, scenes, current_scene>>

\* Mutant: parse_script goes on from the scenes of the section before.
ParseScript_KeepScenes ==
    /\ pc = "parse" /\ ~is_at_end
    /\ current_token.kind = "SectionHeader"
    /\ to_lowercase(current_token.name) = SScript
    /\ current_scene' = NewScene(<<>>)
    /\ position' = advance
    /\ pc' = "script"
    /\ UNCHANGED <<lexerVars, validatorVars, script, characters, scenes>>

\* "script" arm: the call of parse_script up to its loop.
ParseScript ==
    /\ AtTop
    /\ IsSection(SScript)
    /\ scenes' = <<>>
    /\ current_scene' = NewScene(<<>>)
    /\ position' = advance
    /\ pc' = "script"
    /\ UNCHANGED <<lexerVars, validatorVars, script, characters>>

ParseOtherSection ==
    /\ AtTop
    /\ current_token.kind = "SectionHeader"
    /\ to_lowercase(current_token.name) \notin {STitle, SCharacters, SScript}
    /\ position' = advance
    /\ UNCHANGED <<lexerVars, validatorVars, pc, script, characters, scenes, current_scene>>

\* Mutant: the catch-all arm forgets to advance.
ParseOtherToken_NoAdvance ==
    /\ pc = "parse" /\ ~is_at_end
    /\ current_token.kind # "SectionHeader"
    /\ UNCHANGED vars

ParseOtherToken ==
    /\ AtTop
    /\ current_token.kind # "SectionHeader"
    /\ position' = advance
    /\ UNCHANGED <<lexerVars, validatorVars, pc, script, characters, scenes, current_scene>>

ParseReturn ==
    /\ pc = "parse"
    /\ is_at_end
    /\ pc' = "done"
    /\ UNCHANGED <<lexerVars, validatorVars, position, script, characters, scenes, current_scene>>

(***************************************************************************)
(* Parser::parse_characters, one action per arm of its loop; the return    *)
(* assigns the map to script.characters in Parser::parse.                  *)
(***************************************************************************)
InCharacters == pc = "characters" /\ ~is_at_end

CharactersDef ==
    /\ InCharacters
    /\ current_token.kind = "CharacterDef"
    /\ characters' = insert(characters, current_token.code, current_token.name)
    /\ position' = advance
    /\ UNCHANGED <<lexerVars, validatorVars, pc, script, scenes, current_scene>>

CharactersOther ==
    /\ InCharacters
    /\ current_token.kind \notin {"CharacterDef", "SectionHeader"}
    /\ position' = advance
    /\ UNCHANGED <<lexerVars, validatorVars, pc, script, characters, scenes, current_scene>>

\* Mutant: the sub-parser consumes the header it stops at.
CharactersBreak_Consume ==
    /\ pc = "characters" /\ ~is_at_end
    /\ current_token.kind = "SectionHeader"
    /\ script' = [script EXCEPT !.characters = characters]
    /\ position' = advance
    /\ pc' = "parse"
    /\ UNCHANGED <<lexerVars, validatorVars, characters, scenes, current_scene>>

CharactersBreak ==
    /\ InCharacters
    /\ current_token.kind = "SectionHeader"
    /\ script' = [script EXCEPT !.characters = characters]
    /\ pc' = "parse"
    /\ UNCHANGED <<lexerVars, validatorVars, position, characters, scenes, current_scene>>

CharactersEnd ==
    /\ pc = "characters"
    /\ is_at_end
    /\ script' = [script EXCEPT !.characters = characters]
    /\ pc' = "parse"
    /\ UNCHANGED <<lexerVars, validatorVars, position, characters, scenes, current_scene>>

(***************************************************************************)
(* Parser::parse_script, one action per arm of its loop; the return pushes *)
(* the last scene when it has elements and assigns script.scenes.          *)
(***************************************************************************)
InScript == pc = "script" /\ ~is_at_end

\* Mutant: the element is put in front of the scene's elements.
push_element_Front(e) == [current_scene EXCEPT !.elements = <<e>> \o @]

push_element(e) == [current_scene EXCEPT !.elements = Append(@, e)]

\* Mutant: the scene is pushed whether or not it has elements.
finished_scenes_Always == Append(scenes, current_scene)

finished_scenes ==
    IF current_scene.elements # <<>> THEN Append(scenes, current_scene) ELSE scenes

\* Mutant: a header met while the open scene is empty does not replace it.
ScriptLocation_KeepFirst ==
    /\ pc = "script" /\ ~is_at_end
    /\ current_token.kind = "LocationHeader"
    /\ scenes' = finished_scenes
    /\ current_scene' = IF current_scene.elements = <<>> /\ current_scene.location # <<>>
                        THEN current_scene
                        ELSE NewScene(<<current_token.name>>)
    /\ position' = advance
    /\ UNCHANGED <<lexerVars, validatorVars, pc, script, characters>>

ScriptLocation ==
    /\ InScript
    /\ current_token.kind = "LocationHeader"
    /\ scenes' = finished_scenes
    /\ current_scene' = NewScene(<<current_token.name>>)
    /\ position' = advance
    /\ UNCHANGED <<lexerVars, validatorVars, pc, script, characters>>

ScriptDialogue ==
    /\ InScript
    /\ current_token.kind = "DialogueLine"
    /\ current_scene' = push_element(Dialogue(current_token.speaker, current_token.text))
    /\ position' = advance
    /\ UNCHANGED <<lexerVars, validatorVars, pc, script, characters, scenes>>

ScriptNarration ==
    /\ InScript
    /\ current_token.kind = "NarrationLine"
    /\ current_scene' = push_element(Narration(current_token.text))
    /\ position' = advance
    /\ UNCHANGED <<lexerVars, validatorVars, pc, script, characters, scenes>>

ScriptAction ==
    /\ InScript
    /\ current_token.kind = "ActionText"
    /\ current_scene' = push_element(Action(current_token.text))
    /\ position' = advance
    /\ UNCHANGED <<lexerVars, validatorVars, pc, script, characters, scenes>>

ScriptOther ==
    /\ InScript
    /\ current_token.kind \notin {"LocationHeader", "DialogueLine", "NarrationLine",
                                  "ActionText", "SectionHeader"}
    /\ position' = advance
    /\ UNCHANGED <<lexerVars, validatorVars, pc, script, characters, scenes, current_scene>>

ScriptBreak ==
    /\ InScript
    /\ current_token.kind = "SectionHeader"
    /\ scenes' = finished_scenes
    /\ script' = [script EXCEPT !.scenes = finished_scenes]
    /\ pc' = "parse"
    /\ UNCHANGED <<lexerVars, validatorVars, position, characters, current_scene>>

ScriptEnd ==
    /\ pc = "script"
    /\ is_at_end
    /\ scenes' = finished_scenes
    /\ script' = [script EXCEPT !.scenes = finished_scenes]
    /\ pc' = "parse"
    /\ UNCHANGED <<lexerVars, validatorVars, position, characters, current_scene>>

(***************************************************************************)
(* Validator (src/src/validator.rs).  A ValidationError is modelled by its *)
(* message, a tuple of the message text and the values formatted into it.  *)
(* A HashMap is iterated in an order the program does not choose: every    *)
(* loop over script.characters runs over one of KeyOrders.                 *)
(***************************************************************************)
ValidationError(text, arg) == <<text, arg>>

KeyOrders(m) ==
    {o \in [1..Cardinality(DOMAIN m) -> DOMAIN m] :
        \A i, j \in 1..Cardinality(DOMAIN m) : o[i] = o[j] => i = j}

RECURSIVE Flatten(_)
Flatten(ss) == IF ss = <<>> THEN <<>> ELSE Head(ss) \o Flatten(Tail(ss))

When(cond, e) == IF cond THEN <<e>> ELSE <<>>

SN == <<"N">>

\* validate_script_structure
StructureErrors ==
    When(script.title_section = <<>>, ValidationError("Title section is missing", <<>>))
    \o When(DOMAIN script.characters = {},
            ValidationError("Character definitions are missing", <<>>))
    \o When(script.scenes = <<>>, ValidationError("Script content is missing", <<>>))

\* validate_characters: the format loop and the duplicate loop over `order`.
CodeErrors(code, name) ==
    When(\E i \in 1..Len(code) : ~IsUpper(code[i]),
         ValidationError("Invalid character code", code))
    \o When(code = <<>>, ValidationError("Character code cannot be empty", <<>>))
    \o When(trim(name) = <<>>, ValidationError("Character name cannot be empty", code))

CharacterErrors(order) ==
    Flatten([i \in 1..Len(order) |-> CodeErrors(order[i], script.characters[order[i]])])
    \o Flatten([i \in 1..Len(order) |->
                  When(\E j \in 1..(i - 1) : order[j] = order[i],
                       ValidationError("Duplicate character code", order[i]))])

ReservedWarnings ==
    When(SN \in DOMAIN script.characters,
         ValidationError("Character code is reserved for narrator", SN))

\* validate_script_content: the errors of one element, of all scenes, the
\* warnings for empty scenes and for unused definitions.
ElementErrors(e) ==
    CASE e.kind = "Dialogue" ->
            When(e.speaker \notin DOMAIN script.characters /\ e.speaker # SN,
                 ValidationError("Undefined character code used in dialogue", e.speaker))
            \o When(trim(e.text) = <<>>, ValidationError("Empty dialogue", e.speaker))
            \o Flatten([i \in 1..Len(e.actions) |->
                          When(trim(e.actions[i]) = <<>>,
                               ValidationError("Empty action description", <<>>))])
      [] e.kind = "Narration" ->
            When(trim(e.text) = <<>>, ValidationError("Empty narration text", <<>>))
      [] e.kind = "Action" ->
            When(trim(e.text) = <<>>, ValidationError("Empty action text", <<>>))

ContentErrors ==
    Flatten([s \in 1..Len(script.scenes) |->
               Flatten([i \in 1..Len(script.scenes[s].elements) |->
                          ElementErrors(script.scenes[s].elements[i])])])

EmptySceneWarnings ==
    Flatten([s \in 1..Len(script.scenes) |->
               When(script.scenes[s].elements = <<>>,
                    ValidationError("Scene has no content", s))])

used_characters ==
    UNION {{script.scenes[s].elements[i].speaker :
               i \in {j \in 1..Len(script.scenes[s].elements) :
                          script.scenes[s].elements[j].kind = "Dialogue"}} :
           s \in 1..Len(script.scenes)}

UnusedWarnings(order) ==
    Flatten([i \in 1..Len(order) |->
               When(order[i] \notin used_characters,
                    ValidationError("Character is defined but never used", order[i]))])

\* validate_formatting
LocationErrors ==
    Flatten([s \in 1..Len(script.scenes) |->
               When(script.scenes[s].location # <<>> /\
                        trim(Head(script.scenes[s].location)) = <<>>,
                    ValidationError("Scene location cannot be empty", <<>>))])

docVars == <<entry, lines, li, current_section, tokens, position, script, characters,
             scenes, current_scene>>

\* main: Validator::new and validate up to the end of validate_script_structure.
ValidateStructure ==
    /\ entry = "main"
    /\ pc = "done"
    /\ errors' = StructureErrors
    /\ warnings' = <<>>
    /\ pc' = "validate_characters"
    /\ UNCHANGED <<docVars, result>>

ValidateCharacters ==
    /\ pc = "validate_characters"
    /\ \E order \in KeyOrders(script.characters) :
          errors' = errors \o CharacterErrors(order)
    /\ warnings' = warnings \o ReservedWarnings
    /\ pc' = "validate_script_content"
    /\ UNCHANGED <<docVars, result>>

ValidateScriptContent ==
    /\ pc = "validate_script_content"
    /\ errors' = errors \o ContentErrors
    /\ \E order \in KeyOrders(script.characters) :
          warnings' = warnings \o EmptySceneWarnings \o UnusedWarnings(order)
    /\ pc' = "validate_reserved_keywords"
    /\ UNCHANGED <<docVars, result>>

ValidateReservedKeywords ==
    /\ pc = "validate_reserved_keywords"
    /\ warnings' = warnings \o ReservedWarnings
    /\ pc' = "validate_formatting"
    /\ UNCHANGED <<docVars, errors, result>>

ValidateFormatting ==
    /\ pc = "validate_formatting"
    /\ errors' = errors \o LocationErrors
    /\ warnings' = warnings \o EmptySceneWarnings
    /\ pc' = "validate_return"
    /\ UNCHANGED <<docVars, result>>

\* Mutant: warnings fail the validation as errors do.
ValidateErr_OnWarnings ==
    /\ pc = "validate_return"
    /\ (errors # <<>> \/ warnings # <<>>)
    /\ result' = "Err"
    /\ pc' = "exit"
    /\ UNCHANGED <<docVars, errors, warnings>>

\* validate returns Err and main's `?` returns it: nothing is rendered.
ValidateErr ==
    /\ pc = "validate_return"
    /\ errors # <<>>
    /\ result' = "Err"
    /\ pc' = "exit"
    /\ UNCHANGED <<docVars, errors, warnings>>

\* validate prints the warnings, if any, and returns Ok.
ValidateOk ==
    /\ pc = "validate_return"
    /\ ~(errors # <<>>)
    /\ result' = "Ok"
    /\ pc' = "validated"
    /\ UNCHANGED <<docVars, errors, warnings>>

(***************************************************************************)
(* main after validate: --validate-only returns, else the renderer runs.   *)
(***************************************************************************)
MainValidateOnly ==
    /\ pc = "validated"
    /\ pc' = "exit"
    /\ UNCHANGED <<docVars, validatorVars>>

MainRender ==
    /\ pc = "validated"
    /\ pc' = "render"
    /\ UNCHANGED <<docVars, validatorVars>>

Next ==
    \/ LexBlank
    \/ LexSectionHeader
    \/ LexTitleHeader
    \/ LexCharactersLine
    \/ LexScriptLine
    \/ LexOtherLine
    \/ LexEOF
    \/ ParseTitle
    \/ ParseCharacters
    \/ ParseScript
    \/ ParseOtherSection
    \/ ParseOtherToken
    \/ ParseReturn
    \/ CharactersDef
    \/ CharactersOther
    \/ CharactersBreak
    \/ CharactersEnd
    \/ ScriptLocation
    \/ ScriptDialogue
    \/ ScriptNarration
    \/ ScriptAction
    \/ ScriptOther
    \/ ScriptBreak
    \/ ScriptEnd
    \/ ValidateStructure
    \/ ValidateCharacters
    \/ ValidateScriptContent
    \/ ValidateReservedKeywords
    \/ ValidateFormatting
    \/ ValidateErr
    \/ ValidateOk
    \/ MainValidateOnly
    \/ MainRender

Spec == Init /\ [][Next]_vars

(***************************************************************************)
(* Helpers of the properties.                                              *)
(***************************************************************************)
Last(s) == s[Len(s)]

\* The line the lexer loop has just consumed, trimmed.
lastLine == trim(lines[li])

\* UPPER+ ':' text, stated on the characters of a trimmed line.
UpperColonShape(t) ==
    \E k \in 1..Len(t) :
        /\ \A i \in 1..k : t[i] \in {UpperChars[n] : n \in 1..Len(UpperChars)}
        /\ Len(t) >= k + 2
        /\ t[k + 1] = ":"

\* The tokens the parser can see: those before the first EOF.
Stream ==
    LET e == {i \in 1..Len(tokens) : tokens[i].kind = "EOF"}
    IN  IF e = {} THEN tokens
        ELSE SubSeq(tokens, 1, (CHOOSE i \in e : \A j \in e : i <= j) - 1)

(***************************************************************************)
(* C1: a line of the shape UPPER+ ':' text read while the current section  *)
(* is "script" (in any letter case) appends exactly one token, a           *)
(* DialogueLine, and read while it is "characters" appends exactly one     *)
(* token, a CharacterDef.                                                  *)
(***************************************************************************)
C1_SectionDisambiguates ==
    [][(InLoop /\ UpperColonShape(trimmed)) =>
          /\ to_lowercase(current_section) = SScript =>
                /\ Len(tokens') = Len(tokens) + 1
                /\ SubSeq(tokens', 1, Len(tokens)) = tokens
                /\ Last(tokens').kind = "DialogueLine"
          /\ to_lowercase(current_section) = SCharacters =>
                /\ Len(tokens') = Len(tokens) + 1
                /\ SubSeq(tokens', 1, Len(tokens)) = tokens
                /\ Last(tokens').kind = "CharacterDef"]_vars

C1_Witness ==
    /\ pc = "lex"
    /\ li >= 2
    /\ UpperColonShape(lastLine)
    /\ current_section # SScript
    /\ to_lowercase(current_section) = SScript
    /\ Last(tokens).kind = "DialogueLine"

(***************************************************************************)
(* C2: once main's parse is done, the title is non-empty only if some      *)
(* input line is a single-hash "# " header, and a non-empty title is the   *)
(* label "Title Section".                                                  *)
(***************************************************************************)
HasTitleLine ==
    \E i \in 1..Len(lines) :
        IsTitleLine(trim(lines[i])) /\ ~IsSectionLine(trim(lines[i]))

C2_TitleOnlyFromHashHeader ==
    (entry = "main" /\ pc = "done" /\ script.title_section # <<>>) =>
        (HasTitleLine /\ script.title_section = TitleLabel)

(***************************************************************************)
(* C3: every scene of the document, and every finished scene of the script *)
(* sub-parser, has at least one element.                                   *)
(***************************************************************************)
C3_NoEmptyScene ==
    /\ \A i \in 1..Len(script.scenes) : Len(script.scenes[i].elements) >= 1
    /\ \A i \in 1..Len(scenes) : Len(scenes[i].elements) >= 1

\* A header opened a scene that got no element before the next header, the
\* next section or the end, and the document still has scenes.
C3_Witness ==
    /\ pc = "done"
    /\ Len(script.scenes) >= 1
    /\ \E i \in 2..position :
          /\ tokens[i].kind = "LocationHeader"
          /\ tokens[i - 1].kind # "SectionHeader"
          /\ (i = Len(tokens) \/
              tokens[i + 1].kind \in {"LocationHeader", "SectionHeader", "EOF"})
          /\ \E h \in 1..(i - 1) :
                /\ tokens[h].kind = "SectionHeader"
                /\ to_lowercase(tokens[h].name) = SScript
                /\ \A j \in (h + 1)..i : tokens[j].kind # "SectionHeader"

(***************************************************************************)
(* The last script section of the stream, the one that decides             *)
(* script.scenes: its header, its body, and the content tokens of a body.  *)
(***************************************************************************)
IsHeader(t, name) == t.kind = "SectionHeader" /\ to_lowercase(t.name) = name

Max(S) == CHOOSE i \in S : \A j \in S : j <= i
Min(S) == CHOOSE i \in S : \A j \in S : i <= j

Headers(name) == {h \in 1..Len(Stream) : IsHeader(Stream[h], name)}

BodyOf(h) ==
    LET next == {j \in (h + 1)..Len(Stream) : Stream[j].kind = "SectionHeader"}
    IN  SubSeq(Stream, h + 1, IF next = {} THEN Len(Stream) ELSE Min(next) - 1)

ScriptBody == BodyOf(Max(Headers(SScript)))

IsContent(t) == t.kind \in {"DialogueLine", "NarrationLine", "ActionText"}
IsLocation(t) == t.kind = "LocationHeader"

ContentOf(body) == SelectSeq(body, IsContent)

ElementOf(t) ==
    CASE t.kind = "DialogueLine" ->
            [kind |-> "Dialogue", speaker |-> t.speaker, text |-> t.text, actions |-> <<>>]
      [] t.kind = "NarrationLine" -> [kind |-> "Narration", text |-> t.text]
      [] t.kind = "ActionText" -> [kind |-> "Action", text |-> t.text]

\* The script section opens with two location headers in a row, and has no
\* other location header.
TwoHeadersOpenScript ==
    /\ Headers(SScript) # {}
    /\ Len(ScriptBody) >= 2
    /\ IsLocation(ScriptBody[1])
    /\ IsLocation(ScriptBody[2])
    /\ \A i \in 3..Len(ScriptBody) : ~IsLocation(ScriptBody[i])

AfterTwoHeaders == ContentOf(SubSeq(ScriptBody, 3, Len(ScriptBody)))

(***************************************************************************)
(* C4 as stated, on the documents main builds from a text: two location    *)
(* headers in a row yield exactly one scene in the output, and it carries  *)
(* the second header's location.                                           *)
(***************************************************************************)
C4_ExactlyOneScene ==
    (entry = "main" /\ pc = "done" /\ TwoHeadersOpenScript) =>
        /\ Len(script.scenes) = 1
        /\ script.scenes[1].location = <<ScriptBody[2].name>>

(***************************************************************************)
(* C4 as amended: a location header met while the scene opened by the      *)
(* previous header is still empty appends no scene and opens a scene with  *)
(* its own location; a script section that opens with two headers in a row *)
(* yields one scene, with the second location, when content follows the    *)
(* second header, and no scene when none does.                             *)
(***************************************************************************)
C4_SecondHeaderStep ==
    (/\ InScript
     /\ current_token.kind = "LocationHeader"
     /\ current_scene.location # <<>>
     /\ current_scene.elements = <<>>) =>
        /\ scenes' = scenes
        /\ current_scene' = [location |-> <<current_token.name>>, elements |-> <<>>]

C4_SecondHeaderResult ==
    (pc = "done" /\ TwoHeadersOpenScript) =>
        IF AfterTwoHeaders # <<>>
        THEN /\ Len(script.scenes) = 1
             /\ script.scenes[1].location = <<ScriptBody[2].name>>
             /\ Len(script.scenes[1].elements) = Len(AfterTwoHeaders)
        ELSE script.scenes = <<>>

C4_FirstHeaderDiscarded == []C4_SecondHeaderResult /\ [][C4_SecondHeaderStep]_vars

C4_Witness ==
    /\ pc = "done"
    /\ TwoHeadersOpenScript
    /\ ScriptBody[1].name # ScriptBody[2].name
    /\ AfterTwoHeaders # <<>>
    /\ Len(script.scenes) = 1

(***************************************************************************)
(* C5: the parser never moves the cursor past the end, every iteration of  *)
(* its three loops advances the cursor by one or leaves its loop, a        *)
(* measure bounded below decreases with every step, and until parse has    *)
(* returned a step that changes the state is possible: parse returns, and  *)
(* it has no failing path.                                                 *)
(***************************************************************************)
InParser == pc \in {"parse", "characters", "script"}

Rank == CASE pc = "done" -> 0
          [] pc = "parse" -> 1
          [] pc \in {"characters", "script"} -> 2
          [] pc = "lex" -> 3

Measure == 3 * (Len(tokens) - position) + Rank

C5_CursorInRange == position <= Len(tokens)

C5_Step ==
    InParser =>
        /\ (position' = position + 1 \/ (position' = position /\ pc' # pc))
        /\ Measure' < Measure
        /\ Measure' >= 0
        /\ pc' \in {"parse", "characters", "script", "done"}

C5_NotStuck == InParser => ENABLED <<Next>>_vars

C5_ParseTerminates == [](C5_CursorInRange /\ C5_NotStuck) /\ [][C5_Step]_vars

\* parse has returned from a stream with no sentinel that has a content
\* token out of place and a section header it does not know.
C5_Witness ==
    /\ pc = "done"
    /\ entry = "lib"
    /\ position = Len(tokens)
    /\ Len(tokens) >= 3
    /\ IsContent(tokens[1])
    /\ \E i \in 1..Len(tokens) :
          /\ tokens[i].kind = "SectionHeader"
          /\ to_lowercase(tokens[i].name) \notin {STitle, SCharacters, SScript}

(***************************************************************************)
(* C6: the token sequence tokenize returns has at least one token, ends    *)
(* with EOF and holds EOF nowhere else.                                    *)
(***************************************************************************)
C6_EOFTerminated ==
    (entry = "main" /\ pc # "lex") =>
        /\ Len(tokens) >= 1
        /\ tokens[Len(tokens)].kind = "EOF"
        /\ \A i \in 1..(Len(tokens) - 1) : tokens[i].kind # "EOF"

C6_Witness ==
    /\ entry = "main"
    /\ pc = "parse"
    /\ position = 0
    /\ Len(tokens) >= 3

(***************************************************************************)
(* C7: while and after a characters section is read, the mapping holds     *)
(* exactly the codes defined in it so far, each with the name of its last  *)
(* definition, so its size is the number of distinct codes.                *)
(***************************************************************************)
DefsIn(s) == SelectSeq(s, LAMBDA t : t.kind = "CharacterDef")

LastWins(m, defs) ==
    /\ DOMAIN m = {defs[i].code : i \in 1..Len(defs)}
    /\ \A c \in DOMAIN m :
          m[c] = defs[Max({i \in 1..Len(defs) : defs[i].code = c})].name
    /\ Cardinality(DOMAIN m) = Cardinality({defs[i].code : i \in 1..Len(defs)})

\* The tokens the characters sub-parser has consumed since its header.
ConsumedDefs ==
    LET h == Max({j \in 1..position : tokens[j].kind = "SectionHeader"})
    IN  DefsIn(SubSeq(tokens, h + 1, position))

C7_LastDefinitionWins ==
    /\ pc = "characters" => LastWins(characters, ConsumedDefs)
    /\ (pc = "done" /\ Cardinality(Headers(SCharacters)) = 1) =>
          LastWins(script.characters, DefsIn(BodyOf(Max(Headers(SCharacters)))))

\* One code was defined twice, with two names, and the mapping has one entry.
C7_Witness ==
    /\ pc = "done"
    /\ Cardinality(Headers(SCharacters)) = 1
    /\ LET defs == DefsIn(BodyOf(Max(Headers(SCharacters))))
       IN  /\ \E i, j \in 1..Len(defs) :
                i < j /\ defs[i].code = defs[j].code /\ defs[i].name # defs[j].name
           /\ Len(defs) > Cardinality(DOMAIN script.characters)
           /\ DOMAIN script.characters # {}

(***************************************************************************)
(* C8: a script section with content and no location header yields exactly *)
(* one scene, with no location, holding the section's content in order.    *)
(***************************************************************************)
NoHeaderScript ==
    /\ Headers(SScript) # {}
    /\ \A i \in 1..Len(ScriptBody) : ~IsLocation(ScriptBody[i])
    /\ ContentOf(ScriptBody) # <<>>

C8_SingleUnlocatedScene ==
    (pc = "done" /\ NoHeaderScript) =>
        /\ Len(script.scenes) = 1
        /\ script.scenes[1].location = <<>>
        /\ script.scenes[1].elements =
              [i \in 1..Len(ContentOf(ScriptBody)) |-> ElementOf(ContentOf(ScriptBody)[i])]

C8_Witness ==
    /\ pc = "done"
    /\ entry = "main"
    /\ NoHeaderScript
    /\ Len(script.scenes) = 1
    /\ Len(script.scenes[1].elements) >= 2
    /\ script.scenes[1].elements[1] # script.scenes[1].elements[2]

(***************************************************************************)
(* C9: a non-blank, non-header line read in the script section appends     *)
(* exactly one token: LocationHeader(inner) when its first character is    *)
(* '[' and its last ']', else ActionText(inner) when they are '(' and ')', *)
(* else a DialogueLine when it has the shape UPPER+ ':' text, else         *)
(* NarrationLine(the trimmed line).                                        *)
(***************************************************************************)
Inner(t) == SubSeq(t, 2, Len(t) - 1)

ExpectedScriptToken(t, tok) ==
    IF t[1] = "[" /\ t[Len(t)] = "]"
    THEN tok = [kind |-> "LocationHeader", name |-> Inner(t)]
    ELSE IF t[1] = "(" /\ t[Len(t)] = ")"
    THEN tok = [kind |-> "ActionText", text |-> Inner(t)]
    ELSE IF UpperColonShape(t)
    THEN tok.kind = "DialogueLine"
    ELSE tok = [kind |-> "NarrationLine", text |-> t]

C9_ScriptLineRules ==
    [][(InLoop /\ IsContentLine(trimmed) /\ to_lowercase(current_section) = SScript) =>
          /\ Len(tokens') = Len(tokens) + 1
          /\ SubSeq(tokens', 1, Len(tokens)) = tokens
          /\ ExpectedScriptToken(trimmed, Last(tokens'))]_vars

\* A line with a lower-case code, read in the script section, became narration.
C9_Witness ==
    /\ pc = "lex"
    /\ li >= 2
    /\ to_lowercase(current_section) = SScript
    /\ lastLine = <<"a", ":", " ", "x">>
    /\ Last(tokens) = [kind |-> "NarrationLine", text |-> lastLine]

(***************************************************************************)
(* C10: a blank line, and a non-header line read while the current section *)
(* is neither "characters" nor "script", leave the tokens and the current  *)
(* section as they are.                                                    *)
(***************************************************************************)
C10_DroppedLines ==
    [][(/\ InLoop
        /\ \/ trimmed = <<>>
           \/ /\ IsContentLine(trimmed)
              /\ to_lowercase(current_section) \notin {SCharacters, SScript}) =>
          /\ tokens' = tokens
          /\ current_section' = current_section]_vars

\* A content line and then a blank line were read in the title section, and
\* the header's token is still the only one.
C10_Witness ==
    /\ pc = "lex"
    /\ li = 3
    /\ IsTitleLine(trim(lines[1]))
    /\ IsContentLine(trim(lines[2]))
    /\ trim(lines[3]) = <<>>
    /\ tokens = <<[kind |-> "SectionHeader", name |-> STitle]>>
    /\ current_section = STitle

(***************************************************************************)
(* C11: when the characters section of main's input defines one code more  *)
(* than once, validate returns Err (its duplicate-code error), so that     *)
(* nothing is rendered.                                                    *)
(***************************************************************************)
DuplicateDefined ==
    \E i, j \in 1..Len(tokens) :
        /\ i < j
        /\ tokens[i].kind = "CharacterDef"
        /\ tokens[j].kind = "CharacterDef"
        /\ tokens[i].code = tokens[j].code
        /\ \A k \in i..j : tokens[k].kind # "SectionHeader"

C11_DuplicateCodeIsError ==
    (entry = "main" /\ DuplicateDefined /\ result # "none") => result = "Err"

(***************************************************************************)
(* C12: main invokes the renderer only when validate has returned Ok;      *)
(* validate returns Err exactly when an error was recorded; with no error  *)
(* recorded, whatever the warnings, validate returns Ok and main can       *)
(* render.                                                                 *)
(***************************************************************************)
C12_RenderOnlyAfterOk ==
    /\ pc = "render" => result = "Ok"
    /\ result # "none" => (result = "Err" <=> errors # <<>>)
    /\ (pc = "validate_return" /\ errors = <<>>) => ENABLED ValidateOk
    /\ pc = "validated" => (result = "Ok" /\ ENABLED MainRender)

\* The renderer runs on a document that got a warning and no error.
C12_Witness ==
    /\ pc = "render"
    /\ warnings # <<>>
    /\ errors = <<>>

(***************************************************************************)
(* C13: on the tokens tokenize produced, the top-level loop of parse only  *)
(* meets section headers, the characters sub-parser only CharacterDef      *)
(* tokens and the header it stops at, the script sub-parser only script    *)
(* tokens and the header it stops at; a sub-parser returns with the cursor *)
(* on that header.                                                         *)
(***************************************************************************)
ScriptKinds == {"LocationHeader", "DialogueLine", "NarrationLine", "ActionText"}

C13_TopLevelSeesHeadersOnly ==
    (entry = "main" /\ ~is_at_end) =>
        /\ pc = "parse" => current_token.kind = "SectionHeader"
        /\ pc = "characters" => current_token.kind \in {"CharacterDef", "SectionHeader"}
        /\ pc = "script" => current_token.kind \in ScriptKinds \cup {"SectionHeader"}

\* A sub-parser has returned at a header, after consuming content.
C13_Witness ==
    /\ entry = "main"
    /\ pc = "parse"
    /\ position >= 2
    /\ ~is_at_end
    /\ current_token.kind = "SectionHeader"
    /\ tokens[position].kind \in ScriptKinds \cup {"CharacterDef"}

(***************************************************************************)
(* C14: the document parse returns holds the result of the last script     *)
(* section and of the last characters section of the stream only: the      *)
(* elements of its scenes are the content of the last script section, in   *)
(* order, and its mapping is the one the last characters section defines.  *)
(***************************************************************************)
C14_LastSectionWins ==
    pc = "done" =>
        /\ Headers(SScript) # {} =>
              Flatten([i \in 1..Len(script.scenes) |-> script.scenes[i].elements]) =
                 [i \in 1..Len(ContentOf(ScriptBody)) |-> ElementOf(ContentOf(ScriptBody)[i])]
        /\ Headers(SCharacters) # {} =>
              LastWins(script.characters, DefsIn(BodyOf(Max(Headers(SCharacters)))))

\* An earlier script section had content and the last one has none: the
\* document has no scene.
C14_Witness ==
    /\ pc = "done"
    /\ \E h \in Headers(SScript) :
          /\ h < Max(Headers(SScript))
          /\ ContentOf(BodyOf(h)) # <<>>
    /\ ContentOf(ScriptBody) = <<>>
    /\ script.scenes = <<>>

====
